---- MODULE Spec2Model ----
(***************************************************************************)
(* State-machine model of src/train.py (function main): the dataset        *)
(* indexer, the train/validation/test splitter and the epoch loop with     *)
(* periodic validation, best-metric bookkeeping and checkpointing.         *)
(*                                                                         *)
(* Strings are sequences of one-character strings, so that the substring   *)
(* test, os.path.join and the lexicographic sort are computed as Python    *)
(* computes them.  The products size_dataset*0.8 and train_test_split*0.9  *)
(* are computed exactly on the binary64 significands of 0.8 and 0.9,       *)
(* rounded to nearest-even, and int() truncates the rounded product.       *)
(* The network, the loss and the Dice metric are opaque: every batch       *)
(* draws its loss from LossValues and every validation batch its Dice      *)
(* value from DiceValues.  Means are exact fractions <<num, den>> in       *)
(* lowest terms.  The model parameters are identified by the number of     *)
(* optimizer steps taken so far.                                           *)
(***************************************************************************)
EXTENDS Integers, Sequences, FiniteSets, TLC

\* ------------------------------------------------------------------ bounds
\* number of epochs of the loop (4000 in the source, capped here)
n_epochs == 4
\* losses of a batch are 0..MaxLoss
MaxLoss == 0
\* Dice values of a validation batch are 0..MaxDice (in units of 1/MaxDice)
MaxDice == 1

\* --------------------------------------------------------------- constants
val_interval == 2
train_batch_size == 4
val_batch_size == 1
\* width of a binary64 significand
SignificandBits == 53

LossValues == 0..MaxLoss
DiceValues == 0..MaxDice

\* ----------------------------------------------------------------- strings
\* the characters that occur, in ASCII order
Ascii ==
  << ".", "/", "0", "1", "2", "3", "4", "5", "6", "7", "8", "9",
     "C", "L", "R", "_",
     "a", "b", "c", "d", "e", "f", "g", "h", "i", "j", "k", "l", "m",
     "n", "o", "p", "q", "r", "s", "t", "u", "v", "w", "x", "y", "z" >>

Ord(c) == CHOOSE i \in 1..Len(Ascii) : Ascii[i] = c

\* Python's a < b on strings
RECURSIVE StrLess(_, _)
StrLess(a, b) ==
  IF a = <<>> THEN b # <<>>
  ELSE IF b = <<>> THEN FALSE
  ELSE IF a[1] = b[1] THEN StrLess(Tail(a), Tail(b))
  ELSE Ord(a[1]) < Ord(b[1])

\* Python's sub in s
StrContains(s, sub) ==
  \E i \in 1..(Len(s) - Len(sub) + 1) : SubSeq(s, i, i + Len(sub) - 1) = sub

\* os.path.join(a, b) for a relative b
PathJoin(a, b) ==
  IF a = <<>> THEN b
  ELSE IF a[Len(a)] = "/" THEN a \o b
  ELSE a \o <<"/">> \o b

\* sorted(S) for a collection of distinct strings: the k-th element is the
\* one with k - 1 elements below it
Sorted(S) ==
  [k \in 1..Cardinality(S) |->
     CHOOSE x \in S : Cardinality({y \in S : StrLess(y, x)}) = k - 1]

\* fnmatch of a directory entry against the pattern g*
MatchesPattern(name) == name # <<>> /\ name[1] = "g"

\* glob(os.path.join(dpath, "data", "g*")): the matching entries of dpath/data
Glob(root, entries) ==
  { PathJoin(PathJoin(root, <<"d", "a", "t", "a">>), name) :
      name \in { e \in entries : MatchesPattern(e) } }

bad_subjects ==
  << <<"g", "0", "8", "5">>, <<"g", "0", "8", "7">>, <<"g", "0", "9", "8">>,
     <<"g", "1", "0", "9">>, <<"g", "1", "4", "7">>, <<"g", "1", "9", "2">> >>

\* a variant that tests bad_subj against the end of the path only
IsBadSubjectSuffix(subject_base) ==
  \E k \in 1..Len(bad_subjects) :
    /\ Len(subject_base) >= Len(bad_subjects[k])
    /\ SubSeq(subject_base, Len(subject_base) - Len(bad_subjects[k]) + 1,
              Len(subject_base)) = bad_subjects[k]

\* True in [bad_subj in subject_base for bad_subj in bad_subjects]
IsBadSubject(subject_base) ==
  \E k \in 1..Len(bad_subjects) : StrContains(subject_base, bad_subjects[k])

volL == <<"v", "o", "l", "C", "e", "n", "t", "e", "r", "e", "d", "_", "L",
          ".", "n", "i", "i", ".", "g", "z">>
volR == <<"v", "o", "l", "C", "e", "n", "t", "e", "r", "e", "d", "_", "R",
          ".", "n", "i", "i", ".", "g", "z">>
segLName == <<"s", "e", "g", "_", "L", ".", "n", "i", "i", ".", "g", "z">>
segRName == <<"s", "e", "g", "_", "R", ".", "n", "i", "i", ".", "g", "z">>

\* the two records of one subject directory, left then right
SubjectRecords(subject_base) ==
  << [img |-> PathJoin(subject_base, volL), seg |-> PathJoin(subject_base, segLName)],
     [img |-> PathJoin(subject_base, volR), seg |-> PathJoin(subject_base, segRName)] >>

\* ------------------------------------------------------- binary64 products
\* A significand is held in three limbs <<high, middle, low>> of base 2^20.
LimbBits == 20
Limb == 2 ^ LimbBits
\* bits of the high limb of a 53-bit significand
HighBits == SignificandBits - 2 * LimbBits

\* the doubles 0.8 = 0x1999999999999A * 2^-53 and 0.9 = 0x1CCCCCCCCCCCCD * 2^-53
Double08 == <<6553, 629145, 629146>>
Double09 == <<7372, 838860, 838861>>

\* number of bits of x > 0
BitLen(x) == CHOOSE k \in 1..31 : 2 ^ (k - 1) <= x /\ (k = 31 \/ x < 2 ^ k)

\* int(n * x) for an integer n >= 0 and the double x = m * 2^-53, 0.5 <= x < 1:
\* the exact product p = n * m, rounded to 53 bits (to nearest, ties to even),
\* then truncated
IntOfProduct(n, m) ==
  LET c0 == n * m[3]
      d0 == c0 % Limb
      c1 == n * m[2] + c0 \div Limb
      d1 == c1 % Limb
      c2 == n * m[1] + c1 \div Limb
      \* p = c2 * Limb^2 + d1 * Limb + d0; its k low bits are rounded away
      k        == BitLen(c2) - HighBits
      rem      == d0 % (2 ^ k)
      kept     == d0 \div (2 ^ k)
      odd      == IF k < LimbBits THEN kept % 2 = 1 ELSE d1 % 2 = 1
      roundUp  == k > 0 /\ (2 * rem > 2 ^ k \/ (2 * rem = 2 ^ k /\ odd))
      \* the rounding carries into the integer part when every kept bit below
      \* the binary point is one
      carries  == /\ c2 % (2 ^ HighBits) = 2 ^ HighBits - 1
                  /\ d1 = Limb - 1
                  /\ kept = 2 ^ (LimbBits - k) - 1
  IN  IF n = 0 THEN 0
      ELSE c2 \div (2 ^ HighBits) + (IF roundUp /\ carries THEN 1 ELSE 0)

\* ------------------------------------------------------------------ slices
Min(a, b) == IF a < b THEN a ELSE b

\* a variant whose upper index is inclusive
PySliceInclusive(s, lo, hi) == SubSeq(s, Min(lo, Len(s)) + 1, Min(hi + 1, Len(s)))

\* Python's s[lo:hi] for 0 <= lo, 0 <= hi
PySlice(s, lo, hi) == SubSeq(s, Min(lo, Len(s)) + 1, Min(hi, Len(s)))

\* --------------------------------------------------------------- fractions
RECURSIVE GCD(_, _)
GCD(a, b) == IF b = 0 THEN a ELSE GCD(b, a % b)

Abs(x) == IF x < 0 THEN -x ELSE x

\* n / d for d > 0, in lowest terms
Frac(n, d) == LET g == GCD(Abs(n), d) IN <<n \div g, d \div g>>

FracLess(a, b) == a[1] * b[2] < b[1] * a[2]

\* number of batches a DataLoader yields over n samples (drop_last = False)
NumBatches(n, batch_size) == (n + batch_size - 1) \div batch_size

\* ---------------------------------------------------------------- splitter
\* int(size_dataset * 0.8)
TrainTestSplit(n) == IntOfProduct(n, Double08)

\* a variant that takes 0.8 of the boundary again
TrainValSplitRatio08(tts) == IntOfProduct(tts, Double08)

\* int(train_test_split * 0.9)
TrainValSplit(tts) == IntOfProduct(tts, Double09)

\* ------------------------------------------------------------- epoch loop
\* a variant that tests the 0-based epoch index
ValidationDueZeroBased(e) == e % val_interval = 0

\* (epoch + 1) % val_interval == 0
ValidationDue(e) == (e + 1) % val_interval = 0

\* a variant with metric >= best_metric
IsNewBestOrEqual(metric, best) == ~FracLess(metric, best)

\* a variant with metric < best_metric
IsNewBestReversed(metric, best) == FracLess(metric, best)

\* metric > best_metric
IsNewBest(metric, best) == FracLess(best, metric)

\* len(train_ds) // train_loader.batch_size
EpochLen(n) == n \div train_batch_size

\* epoch_len * epoch + step
GlobalStep(epoch_len, e, s) == epoch_len * e + s

\* ------------------------------------------------------------------ inputs
\* directories the script may live in (dpath)
RootDirs == { <<"/", "w">>, <<"/", "g", "1", "9", "2">> }

\* names that may occur in dpath/data
DirEntries ==
  { <<"g", "0", "0", "1">>, <<"g", "0", "0", "2">>, <<"g", "0", "8", "4">>,
    <<"g", "1", "0">>, <<"g", "0", "8", "5", "0">>, <<"x", "1">> }

\* a larger directory, for the indexer and the splitter alone
WideEntries ==
  DirEntries \cup
  { <<"g", "0", "0", "3">>, <<"g", "0", "1">>, <<"g", "0", "8", "6">>,
    <<"g", "2", "0", "0">>, <<"g", "1", "4", "7">> }

\* ------------------------------------------------------------------- state
VARIABLES
  dpath, listing,
  subjects, i, data,
  size_dataset, train_test_split, train_val_split,
  data_train, data_val, data_test,
  best_metric, best_metric_epoch, epoch_loss_values, metric_values,
  writer_scalars, writer_images,
  epoch, next_epoch, epoch_loss, step, train_iter,
  metric_sum, metric_count, val_iter,
  model_params, ckpt, ckpt_writes,
  pc, error

inputs   == <<dpath, listing>>
indexer  == <<subjects, i, data>>
splitter == <<size_dataset, train_test_split, train_val_split,
              data_train, data_val, data_test>>
best     == <<best_metric, best_metric_epoch>>
history  == <<epoch_loss_values, metric_values>>
writer   == <<writer_scalars, writer_images>>
trainst  == <<epoch_loss, step, train_iter>>
valst    == <<metric_sum, metric_count, val_iter>>
files    == <<ckpt, ckpt_writes>>

vars == <<inputs, indexer, splitter, best, history, writer, epoch, next_epoch,
          trainst, valst, model_params, files, pc, error>>

InitOver(entries) ==
  /\ dpath \in RootDirs
  /\ listing \in SUBSET entries
  /\ subjects = <<>> /\ i = 1 /\ data = <<>>
  /\ size_dataset = 0 /\ train_test_split = 0 /\ train_val_split = 0
  /\ data_train = <<>> /\ data_val = <<>> /\ data_test = <<>>
  /\ best_metric = <<-1, 1>> /\ best_metric_epoch = -1
  /\ epoch_loss_values = <<>> /\ metric_values = <<>>
  /\ writer_scalars = <<>> /\ writer_images = <<>>
  /\ epoch = 0 /\ next_epoch = 0
  /\ epoch_loss = <<0, 1>> /\ step = 0 /\ train_iter = 0
  /\ metric_sum = 0 /\ metric_count = 0 /\ val_iter = 0
  /\ model_params = 0
  /\ ckpt = <<>> /\ ckpt_writes = 0
  /\ pc = "start" /\ error = "none"

Init == InitOver(DirEntries)

\* an exception propagates out of main
Raise(e) == pc' = "error" /\ error' = e

\* --------------------------------------------------------------- indexer
\* lines 56-62: the sorted list of subject directories
ListSubjects ==
  /\ pc = "start"
  /\ subjects' = Sorted(Glob(dpath, listing))
  /\ i' = 1
  /\ data' = <<>>
  /\ pc' = "index"
  /\ UNCHANGED <<inputs, splitter, best, history, writer, epoch, next_epoch,
                 trainst, valst, model_params, files, error>>

\* lines 62-73: one iteration of the loop over the subject directories
IndexSubject ==
  /\ pc = "index"
  /\ i <= Len(subjects)
  /\ data' = IF IsBadSubject(subjects[i]) THEN data
             ELSE data \o SubjectRecords(subjects[i])
  /\ i' = i + 1
  /\ UNCHANGED <<inputs, subjects, splitter, best, history, writer, epoch,
                 next_epoch, trainst, valst, model_params, files, pc, error>>

\* --------------------------------------------------------------- splitter
\* lines 75-84
SplitData ==
  /\ pc = "index"
  /\ i > Len(subjects)
  /\ \E n \in {Len(data)} : \E tts \in {TrainTestSplit(n)} :
       \E tvs \in {TrainValSplit(tts)} :
         /\ size_dataset' = n
         /\ train_test_split' = tts
         /\ train_val_split' = tvs
         /\ data_train' = PySlice(data, 0, tvs)
         /\ data_val' = PySlice(data, tvs, tts)
         /\ data_test' = PySlice(data, tts, n)
  /\ pc' = "loaders"
  /\ UNCHANGED <<inputs, indexer, best, history, writer, epoch, next_epoch,
                 trainst, valst, model_params, files, error>>

\* ---------------------------------------------------------------- loaders
\* lines 119-161: first(check_loader) is None over an empty training slice and
\* check_data["img"] then raises; otherwise the loaders, the network and the
\* loop's bookkeeping are set up
Setup ==
  /\ pc = "loaders"
  /\ IF NumBatches(Len(data_train), train_batch_size) = 0
     THEN /\ Raise("TypeError")
          /\ UNCHANGED <<best, history, writer, model_params>>
     ELSE /\ best_metric' = <<-1, 1>>
          /\ best_metric_epoch' = -1
          /\ epoch_loss_values' = <<>>
          /\ metric_values' = <<>>
          /\ writer_scalars' = <<>>
          /\ writer_images' = <<>>
          /\ model_params' = 0
          /\ pc' = "epoch"
          /\ error' = error
  /\ UNCHANGED <<inputs, indexer, splitter, epoch, next_epoch, trainst, valst,
                 files>>

\* ------------------------------------------------------------- epoch loop
\* lines 162-167: the next epoch of range(n_epochs) starts
EpochStart ==
  /\ pc = "epoch"
  /\ next_epoch < n_epochs
  /\ epoch' = next_epoch
  /\ next_epoch' = next_epoch + 1
  /\ epoch_loss' = <<0, 1>>
  /\ step' = 0
  /\ train_iter' = NumBatches(Len(data_train), train_batch_size)
  /\ pc' = "train"
  /\ UNCHANGED <<inputs, indexer, splitter, best, history, writer, valst,
                 model_params, files, error>>

\* lines 168-179: one training batch
TrainBatch ==
  /\ pc = "train"
  /\ train_iter > 0
  /\ \E loss \in LossValues :
       /\ epoch_loss' = <<epoch_loss[1] + loss, 1>>
       /\ writer_scalars' = Append(writer_scalars,
            [tag |-> "train_loss", value |-> <<loss, 1>>,
             step |-> GlobalStep(EpochLen(Len(data_train)), epoch, step + 1)])
  /\ step' = step + 1
  /\ model_params' = model_params + 1
  /\ train_iter' = train_iter - 1
  /\ UNCHANGED <<inputs, indexer, splitter, best, history, writer_images, epoch,
                 next_epoch, valst, files, pc, error>>

\* lines 180-182: the mean loss of the epoch
TrainEnd ==
  /\ pc = "train"
  /\ train_iter = 0
  /\ IF step = 0
     THEN /\ Raise("ZeroDivisionError")
          /\ UNCHANGED <<epoch_loss, epoch_loss_values>>
     ELSE /\ epoch_loss' = Frac(epoch_loss[1], step)
          /\ epoch_loss_values' = Append(epoch_loss_values, epoch_loss')
          /\ pc' = "trained"
          /\ error' = error
  /\ UNCHANGED <<inputs, indexer, splitter, best, metric_values, writer, epoch,
                 next_epoch, step, train_iter, valst, model_params, files>>

\* line 184, condition false: no validation in this epoch
ValSkip ==
  /\ pc = "trained"
  /\ ~ValidationDue(epoch)
  /\ pc' = "epoch"
  /\ UNCHANGED <<inputs, indexer, splitter, best, history, writer, epoch,
                 next_epoch, trainst, valst, model_params, files, error>>

\* lines 184-191: a validation pass starts
ValStart ==
  /\ pc = "trained"
  /\ ValidationDue(epoch)
  /\ metric_sum' = 0
  /\ metric_count' = 0
  /\ val_iter' = NumBatches(Len(data_val), val_batch_size)
  /\ pc' = "val"
  /\ UNCHANGED <<inputs, indexer, splitter, best, history, writer, epoch,
                 next_epoch, trainst, model_params, files, error>>

\* lines 192-199: one validation batch; len(value) is 1
ValBatch ==
  /\ pc = "val"
  /\ val_iter > 0
  /\ \E value \in DiceValues :
       /\ metric_count' = metric_count + 1
       /\ metric_sum' = metric_sum + value * 1
  /\ val_iter' = val_iter - 1
  /\ UNCHANGED <<inputs, indexer, splitter, best, history, writer, epoch,
                 next_epoch, trainst, model_params, files, pc, error>>

\* lines 200-216: the mean metric, the best-metric bookkeeping, the checkpoint
\* and the log records of the pass
ValEnd ==
  /\ pc = "val"
  /\ val_iter = 0
  /\ IF metric_count = 0
     THEN /\ Raise("ZeroDivisionError")
          /\ UNCHANGED <<best, metric_values, writer, files>>
     ELSE LET metric == Frac(metric_sum, metric_count * MaxDice)
          IN  /\ metric_values' = Append(metric_values, metric)
              /\ IF IsNewBest(metric, best_metric)
                 THEN /\ best_metric' = metric
                      /\ best_metric_epoch' = epoch + 1
                      /\ ckpt' = <<model_params>>
                      /\ ckpt_writes' = ckpt_writes + 1
                 ELSE UNCHANGED <<best, files>>
              /\ writer_scalars' = Append(writer_scalars,
                   [tag |-> "val_mean_dice", value |-> metric, step |-> epoch + 1])
              /\ writer_images' = writer_images \o
                   << [tag |-> "image", step |-> epoch + 1],
                      [tag |-> "label", step |-> epoch + 1],
                      [tag |-> "output", step |-> epoch + 1] >>
              /\ pc' = "epoch"
              /\ error' = error
  /\ UNCHANGED <<inputs, indexer, splitter, epoch_loss_values, epoch, next_epoch,
                 trainst, valst, model_params>>

\* a variant that may leave the loop one epoch early
FinishEarly ==
  /\ pc = "epoch"
  /\ next_epoch >= n_epochs - 1
  /\ pc' = "done"
  /\ UNCHANGED <<inputs, indexer, splitter, best, history, writer, epoch,
                 next_epoch, trainst, valst, model_params, files, error>>

\* lines 218-219: range(n_epochs) is exhausted
Finish ==
  /\ pc = "epoch"
  /\ next_epoch >= n_epochs
  /\ pc' = "done"
  /\ UNCHANGED <<inputs, indexer, splitter, best, history, writer, epoch,
                 next_epoch, trainst, valst, model_params, files, error>>

Next ==
  \/ ListSubjects
  \/ IndexSubject
  \/ SplitData
  \/ Setup
  \/ EpochStart
  \/ TrainBatch
  \/ TrainEnd
  \/ ValSkip
  \/ ValStart
  \/ ValBatch
  \/ ValEnd
  \/ Finish

Spec == Init /\ [][Next]_vars

\* the main thread runs until main returns or raises
FairSpec == Spec /\ WF_vars(Next)

\* the indexer and the splitter alone (lines 56-84), over the larger directory
IndexInit == InitOver(WideEntries)

IndexNext ==
  \/ ListSubjects
  \/ IndexSubject
  \/ SplitData

IndexSpec == IndexInit /\ [][IndexNext]_vars

\* ============================================================== properties
Range(seq) == { seq[j] : j \in 1..Len(seq) }

IndexDone == pc \notin {"start", "index"} \/ (pc = "index" /\ i > Len(subjects))
AfterSplit == pc \notin {"start", "index"}

DataDir == PathJoin(dpath, <<"d", "a", "t", "a">>)

\* the folder name itself contains one of the excluded substrings
NameIsBad(name) == \E k \in 1..Len(bad_subjects) : StrContains(name, bad_subjects[k])

IsPrefix(a, b) == Len(a) <= Len(b) /\ SubSeq(b, 1, Len(a)) = a

\* the record points into the subject folder called name
RecordOf(r, name) ==
  \/ IsPrefix(PathJoin(DataDir, name) \o <<"/">>, r.img)
  \/ IsPrefix(PathJoin(DataDir, name) \o <<"/">>, r.seg)

\* number of scalar log records with the given tag
CountTag(tag) ==
  Cardinality({ j \in 1..Len(writer_scalars) : writer_scalars[j].tag = tag })

\* batches of one training epoch: ceil(len(data_train) / 4)
BatchesPerEpoch == (Len(data_train) + 3) \div 4

\* ---------------------------------------------------------------------- C1
\* C1: after the split, data_train, data_val and data_test are pairwise
\* disjoint contiguous ranges of data, train ++ val ++ test = data (the sizes
\* sum to N) and each slice keeps the order of data.
C1_SplitPartition ==
  AfterSplit =>
    /\ size_dataset = Len(data)
    /\ data_train \o data_val \o data_test = data
    /\ Len(data_train) + Len(data_val) + Len(data_test) = size_dataset
    /\ Range(data_train) \cap Range(data_val) = {}
    /\ Range(data_train) \cap Range(data_test) = {}
    /\ Range(data_val) \cap Range(data_test) = {}
    /\ \E a \in 0..Len(data) : \E b \in a..Len(data) :
         /\ data_train = SubSeq(data, 1, a)
         /\ data_val = SubSeq(data, a + 1, b)
         /\ data_test = SubSeq(data, b + 1, Len(data))

\* a split of sixteen records with three non-empty slices
C1_Witness ==
  /\ AfterSplit
  /\ size_dataset = 16
  /\ data_train # <<>> /\ data_val # <<>> /\ data_test # <<>>

\* ---------------------------------------------------------------------- C2
\* C2 as stated: train_test_split = floor(0.8 N), train_val_split =
\* floor(0.72 N), len(train) = floor(0.72 N), len(val) = floor(0.8 N) -
\* floor(0.72 N), len(test) = N - floor(0.8 N).
C2_BoundariesAsStated ==
  AfterSplit =>
    /\ train_test_split = (8 * size_dataset) \div 10
    /\ train_val_split = (72 * size_dataset) \div 100
    /\ Len(data_train) = (72 * size_dataset) \div 100
    /\ Len(data_val) = (8 * size_dataset) \div 10 - (72 * size_dataset) \div 100
    /\ Len(data_test) = size_dataset - (8 * size_dataset) \div 10

\* C2 amended: train_test_split = floor(0.8 N) and train_val_split =
\* floor(0.9 * floor(0.8 N)); len(train) = train_val_split, len(val) =
\* train_test_split - train_val_split, len(test) = N - train_test_split.
C2_BoundariesNested ==
  AfterSplit =>
    /\ train_test_split = (8 * size_dataset) \div 10
    /\ train_val_split = (9 * ((8 * size_dataset) \div 10)) \div 10
    /\ Len(data_train) = (9 * ((8 * size_dataset) \div 10)) \div 10
    /\ Len(data_val) = (8 * size_dataset) \div 10
                       - (9 * ((8 * size_dataset) \div 10)) \div 10
    /\ Len(data_test) = size_dataset - (8 * size_dataset) \div 10

\* fourteen records: floor(0.9 * floor(11.2)) = 9 while floor(0.72 * 14) = 10
C2_Witness ==
  /\ AfterSplit
  /\ size_dataset = 14
  /\ train_val_split = 9
  /\ Len(data_train) = 9
  /\ Len(data_val) = 2

\* ---------------------------------------------------------------------- C3
\* C3: a subject folder found by the indexer whose name contains one of the
\* six excluded substrings contributes no record to the indexed list.
C3_BadSubjectsExcluded ==
  \A name \in listing :
    (MatchesPattern(name) /\ NameIsBad(name)) =>
      \A r \in Range(data) : ~RecordOf(r, name)

\* the indexer has passed an excluded folder and has emitted records of others
C3_Witness ==
  /\ IndexDone
  /\ \E name \in listing : MatchesPattern(name) /\ NameIsBad(name)
  /\ data # <<>>

\* ---------------------------------------------------------------------- C4
RECURSIVE RecordsOfAll(_)
RecordsOfAll(paths) ==
  IF paths = <<>> THEN <<>>
  ELSE SubjectRecords(paths[1]) \o RecordsOfAll(Tail(paths))

\* C4 as stated: whatever the root directory, every subject folder whose
\* name contains no excluded substring contributes exactly two records, left
\* then right, the subjects in lexicographic order of their paths.
C4_GoodSubjectsIndexed ==
  IndexDone =>
    data = RecordsOfAll(Sorted({ PathJoin(DataDir, name) :
             name \in { e \in listing : MatchesPattern(e) /\ ~NameIsBad(e) } }))

\* ---------------------------------------------------------------------- C5
\* C5: a validation pass runs in epoch e (0-based) iff (e + 1) mod
\* val_interval = 0, and each pass appends one value to metric_values and one
\* val_mean_dice record: after k completed epochs there are floor(k /
\* val_interval) of each.
C5_ValidationSchedule ==
  /\ pc = "val" => (epoch + 1) % val_interval = 0
  /\ pc \in {"train", "trained", "val"} =>
       /\ Len(metric_values) = epoch \div val_interval
       /\ CountTag("val_mean_dice") = epoch \div val_interval
  /\ pc \in {"epoch", "done"} =>
       /\ Len(metric_values) = next_epoch \div val_interval
       /\ CountTag("val_mean_dice") = next_epoch \div val_interval

\* three subjects (six records), two epochs completed, one validation pass
C5_Witness ==
  /\ pc = "epoch"
  /\ size_dataset = 6
  /\ next_epoch = 2
  /\ Len(metric_values) = 1
  /\ CountTag("val_mean_dice") = 1

\* ---------------------------------------------------------------------- C6
\* C6: at the end of a validation pass with mean metric m: if m > best_metric
\* then best_metric becomes m, best_metric_epoch the 1-based epoch, and the
\* model parameters are written to the checkpoint file; otherwise nothing is
\* written and best_metric and best_metric_epoch are unchanged.
C6_BestMetricUpdate ==
  [][ (pc = "val" /\ pc' = "epoch") =>
        LET m == metric_values'[Len(metric_values')]
        IN  IF m[1] * best_metric[2] > best_metric[1] * m[2]
            THEN /\ best_metric' = m
                 /\ best_metric_epoch' = epoch + 1
                 /\ ckpt' = <<model_params>>
                 /\ ckpt_writes' = ckpt_writes + 1
            ELSE /\ best_metric' = best_metric
                 /\ best_metric_epoch' = best_metric_epoch
                 /\ ckpt' = ckpt
                 /\ ckpt_writes' = ckpt_writes ]_vars

\* a pass that improved on the best was followed by one that did not
C6_Witness ==
  /\ pc = "epoch"
  /\ Len(metric_values) = 2
  /\ ckpt_writes = 1
  /\ best_metric_epoch = 2
  /\ best_metric = metric_values[1]

\* ---------------------------------------------------------------------- C7
\* C7 as stated: with an empty training or validation slice the loaders
\* iterate zero batches and the run goes on silently, no error is raised.
C7_EmptySliceIsSilent ==
  (AfterSplit /\ (data_train = <<>> \/ data_val = <<>>)) => error = "none"

\* ---------------------------------------------------------------------- C8
C8_PhaseOrder ==
  /\ pc = "train" =>
       /\ next_epoch = epoch + 1
       /\ Len(epoch_loss_values) = epoch
       /\ step + train_iter = BatchesPerEpoch
  /\ pc \in {"trained", "val"} =>
       /\ next_epoch = epoch + 1
       /\ step = BatchesPerEpoch
       /\ Len(epoch_loss_values) = epoch + 1
  /\ pc = "epoch" => Len(epoch_loss_values) = next_epoch
  /\ pc = "done" => next_epoch = n_epochs /\ Len(epoch_loss_values) = n_epochs

C8_EpochsAscend ==
  /\ next_epoch' \in {next_epoch, next_epoch + 1}
  /\ (pc = "epoch" /\ pc' = "train") => (epoch' = next_epoch /\ epoch' < n_epochs)
  /\ (pc' = "val" /\ pc # "val") => pc = "trained"

\* C8: when no step raises, the loop passes through the epochs 1..n_epochs in
\* increasing order, in each epoch all training batches are done and the mean
\* loss is appended before validation starts, and the loop ends after exactly
\* n_epochs epochs with len(epoch_loss_values) = n_epochs.
C8_LoopRunsToEnd ==
  /\ []C8_PhaseOrder
  /\ [][C8_EpochsAscend]_vars
  /\ (pc = "epoch") ~> (pc = "done" \/ pc = "error")

\* the loop has ended after n_epochs epochs, with their validation passes
C8_Witness ==
  /\ pc = "done"
  /\ error = "none"
  /\ Len(epoch_loss_values) = n_epochs
  /\ BatchesPerEpoch = 2
  /\ Len(metric_values) = n_epochs \div val_interval

\* ---------------------------------------------------------------------- C9
C9_BestIsMaximum ==
  pc \in {"epoch", "train", "trained", "done"} =>
    IF metric_values = <<>>
    THEN best_metric = <<-1, 1>> /\ best_metric_epoch = -1 /\ ckpt = <<>>
    ELSE \E j \in 1..Len(metric_values) :
           /\ best_metric = metric_values[j]
           /\ \A k \in 1..Len(metric_values) :
                ~FracLess(best_metric, metric_values[k])
           /\ \A k \in 1..(j - 1) : FracLess(metric_values[k], best_metric)
           /\ best_metric_epoch = j * val_interval
           /\ ckpt = <<j * val_interval * BatchesPerEpoch>>

\* C9: outside a validation pass best_metric is the maximum of metric_values
\* (or -1 with best_metric_epoch = -1 before any pass), best_metric_epoch is
\* the earliest epoch whose pass produced it, best_metric never decreases and
\* the checkpoint holds the parameters of the pass of best_metric_epoch.
C9_BestMetricBookkeeping ==
  /\ []C9_BestIsMaximum
  /\ [][~FracLess(best_metric', best_metric)]_vars

\* two passes with the same metric: the earlier epoch stays the best one
C9_Witness ==
  /\ pc = "done"
  /\ Len(metric_values) = 2
  /\ metric_values[1] = metric_values[2]
  /\ best_metric_epoch = 2
  /\ ckpt = <<2 * BatchesPerEpoch>>

\* --------------------------------------------------------------------- C10
\* C10 as stated: the step indices epoch_len * epoch + step of the train_loss
\* records are strictly increasing in the order of emission.
C10_StepsStrictlyIncrease ==
  \A j \in 1..Len(writer_scalars) : \A k \in (j + 1)..Len(writer_scalars) :
    (writer_scalars[j].tag = "train_loss" /\ writer_scalars[k].tag = "train_loss")
      => writer_scalars[j].step < writer_scalars[k].step

====
